---- MODULE Spec2Model ----
(***************************************************************************)
(* packprompt: pack a tree of text files into one text archive and unpack  *)
(* it again.  The repository holds two variants of the program:            *)
(*   "raw"  src/main.go           path and content written verbatim        *)
(*   "b64"  src/unnamed/part_000  path and content written as base64       *)
(* A byte is one token of ByteTable; a string is a sequence of tokens.     *)
(***************************************************************************)
EXTENDS Integers, Sequences, FiniteSets, TLC

\* ------------------------------------------------------------ bytes

\* ByteTable[b + 1] is the token of the byte whose value is b.
ByteTable ==
  <<
    "NUL", "x01", "x02", "x03", "x04", "x05", "x06", "x07",
    "x08", "\t", "\n", "x0B", "\f", "\r", "x0E", "x0F",
    "x10", "x11", "x12", "x13", "x14", "x15", "x16", "x17",
    "x18", "x19", "x1A", "ESC", "x1C", "x1D", "x1E", "x1F",
    " ", "!", "\"", "#", "$", "%", "&", "'",
    "(", ")", "*", "+", ",", "-", ".", "/",
    "0", "1", "2", "3", "4", "5", "6", "7",
    "8", "9", ":", ";", "<", "=", ">", "?",
    "@", "A", "B", "C", "D", "E", "F", "G",
    "H", "I", "J", "K", "L", "M", "N", "O",
    "P", "Q", "R", "S", "T", "U", "V", "W",
    "X", "Y", "Z", "[", "\\", "]", "^", "_",
    "x60", "a", "b", "c", "d", "e", "f", "g",
    "h", "i", "j", "k", "l", "m", "n", "o",
    "p", "q", "r", "s", "t", "u", "v", "w",
    "x", "y", "z", "{", "|", "}", "~", "DEL",
    "x80", "x81", "x82", "x83", "x84", "x85", "x86", "x87",
    "x88", "x89", "x8A", "x8B", "x8C", "x8D", "x8E", "x8F",
    "x90", "x91", "x92", "x93", "x94", "x95", "x96", "x97",
    "x98", "x99", "x9A", "x9B", "x9C", "x9D", "x9E", "x9F",
    "xA0", "xA1", "xA2", "xA3", "xA4", "xA5", "xA6", "xA7",
    "xA8", "xA9", "xAA", "xAB", "xAC", "xAD", "xAE", "xAF",
    "xB0", "xB1", "xB2", "xB3", "xB4", "xB5", "xB6", "xB7",
    "xB8", "xB9", "xBA", "xBB", "xBC", "xBD", "xBE", "xBF",
    "xC0", "xC1", "xC2", "xC3", "xC4", "xC5", "xC6", "xC7",
    "xC8", "xC9", "xCA", "xCB", "xCC", "xCD", "xCE", "xCF",
    "xD0", "xD1", "xD2", "xD3", "xD4", "xD5", "xD6", "xD7",
    "xD8", "xD9", "xDA", "xDB", "xDC", "xDD", "xDE", "xDF",
    "xE0", "xE1", "xE2", "xE3", "xE4", "xE5", "xE6", "xE7",
    "xE8", "xE9", "xEA", "xEB", "xEC", "xED", "xEE", "xEF",
    "xF0", "xF1", "xF2", "xF3", "xF4", "xF5", "xF6", "xF7",
    "xF8", "xF9", "xFA", "xFB", "xFC", "xFD", "xFE", "xFF"
  >>

Bytes == {ByteTable[i] : i \in 1..256}

OrdTable == [c \in Bytes |-> (CHOOSE i \in 1..256 : ByteTable[i] = c) - 1]

Ord(c) == OrdTable[c]

Chr(b) == ByteTable[b + 1]

\* ------------------------------------------------------------ strings

Range(s) == {s[i] : i \in 1..Len(s)}

Take(s, n) == SubSeq(s, 1, IF n < Len(s) THEN n ELSE Len(s))

Drop(s, n) == SubSeq(s, n + 1, Len(s))

\* strings.HasPrefix
HasPrefix(s, p) == Len(p) <= Len(s) /\ SubSeq(s, 1, Len(p)) = p

\* strings.Contains
Contains(s, sub) ==
  \E i \in 0..(Len(s) - Len(sub)) : SubSeq(s, i + 1, i + Len(sub)) = sub

\* strings.TrimRight(s, cutset): drops every trailing byte that is in cutset
RECURSIVE TrimRight(_, _)
TrimRight(s, cutset) ==
  IF s # <<>> /\ s[Len(s)] \in cutset
    THEN TrimRight(SubSeq(s, 1, Len(s) - 1), cutset)
    ELSE s

\* index of the first occurrence of byte c in s, 0 when there is none
IndexByte(s, c) ==
  IF c \in Range(s) THEN CHOOSE i \in 1..Len(s) : s[i] = c /\ c \notin Range(Take(s, i - 1))
  ELSE 0

\* strings.Split(s, sep) for a one-byte separator
RECURSIVE Split(_, _)
Split(s, sep) ==
  LET i == IndexByte(s, sep)
  IN  IF i = 0 THEN <<s>> ELSE <<Take(s, i - 1)>> \o Split(Drop(s, i), sep)

\* strings.Join(parts, sep)
RECURSIVE JoinSep(_, _)
JoinSep(parts, sep) ==
  IF parts = <<>> THEN <<>>
  ELSE IF Len(parts) = 1 THEN parts[1]
  ELSE parts[1] \o sep \o JoinSep(Tail(parts), sep)

RECURSIVE Repeat(_, _)
Repeat(s, n) == IF n = 0 THEN <<>> ELSE s \o Repeat(s, n - 1)

\* ------------------------------------------------------------ base64

\* base64.StdEncoding: the alphabet, sextet value v at index v + 1
B64Alphabet ==
  <<
    "A", "B", "C", "D", "E", "F", "G", "H", "I", "J", "K", "L", "M",
    "N", "O", "P", "Q", "R", "S", "T", "U", "V", "W", "X", "Y", "Z",
    "a", "b", "c", "d", "e", "f", "g", "h", "i", "j", "k", "l", "m",
    "n", "o", "p", "q", "r", "s", "t", "u", "v", "w", "x", "y", "z",
    "0", "1", "2", "3", "4", "5", "6", "7", "8", "9", "+", "/"
  >>

B64Chars == {B64Alphabet[i] : i \in 1..64}

B64Enc(v) == B64Alphabet[v + 1]

B64DecTable == [c \in B64Chars |-> (CHOOSE i \in 1..64 : B64Alphabet[i] = c) - 1]

B64Dec(c) == B64DecTable[c]

\* A faulty encoder, for comparison: the last group is left without its "="
\* padding (base64.RawStdEncoding).
RECURSIVE B64EncodeNoPad(_)
B64EncodeNoPad(s) ==
  IF s = <<>> THEN <<>>
  ELSE IF Len(s) = 1 THEN
    LET v == Ord(s[1]) * 65536
    IN  <<B64Enc(v \div 262144), B64Enc((v \div 4096) % 64)>>
  ELSE IF Len(s) = 2 THEN
    LET v == Ord(s[1]) * 65536 + Ord(s[2]) * 256
    IN  <<B64Enc(v \div 262144), B64Enc((v \div 4096) % 64), B64Enc((v \div 64) % 64)>>
  ELSE
    LET v == Ord(s[1]) * 65536 + Ord(s[2]) * 256 + Ord(s[3])
    IN  <<B64Enc(v \div 262144), B64Enc((v \div 4096) % 64),
          B64Enc((v \div 64) % 64), B64Enc(v % 64)>> \o B64EncodeNoPad(Drop(s, 3))

\* base64.StdEncoding encoding of a byte string (EncodeToString, and what
\* NewEncoder has written after Close): 3 bytes to 4 characters, the last
\* group padded with "="; no line breaks are inserted.
RECURSIVE B64Encode(_)
B64Encode(s) ==
  IF s = <<>> THEN <<>>
  ELSE IF Len(s) = 1 THEN
    LET v == Ord(s[1]) * 65536
    IN  <<B64Enc(v \div 262144), B64Enc((v \div 4096) % 64), "=", "=">>
  ELSE IF Len(s) = 2 THEN
    LET v == Ord(s[1]) * 65536 + Ord(s[2]) * 256
    IN  <<B64Enc(v \div 262144), B64Enc((v \div 4096) % 64),
          B64Enc((v \div 64) % 64), "=">>
  ELSE
    LET v == Ord(s[1]) * 65536 + Ord(s[2]) * 256 + Ord(s[3])
    IN  <<B64Enc(v \div 262144), B64Enc((v \div 4096) % 64),
          B64Enc((v \div 64) % 64), B64Enc(v % 64)>> \o B64Encode(Drop(s, 3))

\* One quantum after another of an input without line breaks.  The result is
\* [ok, data]: data holds the bytes decoded before the input ended or was
\* found corrupt.  Padding is required and is accepted in the last quantum
\* only; the bits left over in a padded quantum are not checked (the
\* encoding is not Strict()).
RECURSIVE B64DecodeQuanta(_)
B64DecodeQuanta(s) ==
  IF s = <<>> THEN [ok |-> TRUE, data |-> <<>>]
  ELSE IF Len(s) >= 4 /\ \A i \in 1..4 : s[i] \in B64Chars THEN
    LET v == B64Dec(s[1]) * 262144 + B64Dec(s[2]) * 4096 + B64Dec(s[3]) * 64 + B64Dec(s[4])
        rest == B64DecodeQuanta(Drop(s, 4))
    IN  [ok |-> rest.ok,
         data |-> <<Chr(v \div 65536), Chr((v \div 256) % 256), Chr(v % 256)>> \o rest.data]
  ELSE IF Len(s) = 4 /\ s[1] \in B64Chars /\ s[2] \in B64Chars /\ s[3] = "=" /\ s[4] = "=" THEN
    LET v == B64Dec(s[1]) * 64 + B64Dec(s[2])
    IN  [ok |-> TRUE, data |-> <<Chr(v \div 16)>>]
  ELSE IF Len(s) = 4 /\ \A i \in 1..3 : s[i] \in B64Chars /\ s[4] = "=" THEN
    LET v == B64Dec(s[1]) * 4096 + B64Dec(s[2]) * 64 + B64Dec(s[3])
    IN  [ok |-> TRUE, data |-> <<Chr(v \div 1024), Chr((v \div 4) % 256)>>]
  ELSE [ok |-> FALSE, data |-> <<>>]

\* base64.StdEncoding decoding (DecodeString, and NewDecoder read to its end
\* for inputs of one read chunk): "\r" and "\n" are dropped first.
B64Decode(s) == B64DecodeQuanta(SelectSeq(s, LAMBDA c : c \notin {"\r", "\n"}))

\* ------------------------------------------------------------ paths

Slash == <<"/">>

Dot == <<".">>

DotDot == <<".", ".">>

\* The elements path.Clean keeps: "" and "." are dropped, ".." removes the
\* element before it, is dropped at the root of a rooted path, and is kept
\* at the front of a relative one.
RECURSIVE CleanSegs(_, _, _)
CleanSegs(segs, acc, rooted) ==
  IF segs = <<>> THEN acc
  ELSE
    LET s == Head(segs)
    IN  IF s = <<>> \/ s = Dot THEN CleanSegs(Tail(segs), acc, rooted)
        ELSE IF s = DotDot THEN
          IF acc # <<>> /\ acc[Len(acc)] # DotDot
            THEN CleanSegs(Tail(segs), SubSeq(acc, 1, Len(acc) - 1), rooted)
          ELSE IF rooted THEN CleanSegs(Tail(segs), acc, rooted)
          ELSE CleanSegs(Tail(segs), Append(acc, s), rooted)
        ELSE CleanSegs(Tail(segs), Append(acc, s), rooted)

\* path.Clean, and filepath.Clean where the separator is "/"
Clean(p) ==
  IF p = <<>> THEN Dot
  ELSE
    LET rooted == p[1] = "/"
        body == JoinSep(CleanSegs(Split(p, "/"), <<>>, rooted), Slash)
    IN  IF rooted THEN Slash \o body
        ELSE IF body = <<>> THEN Dot
        ELSE body

\* filepath.Join(a, b): the non-empty elements joined by "/" and cleaned
Join(a, b) ==
  IF a = <<>> /\ b = <<>> THEN <<>>
  ELSE IF a = <<>> THEN Clean(b)
  ELSE IF b = <<>> THEN Clean(a)
  ELSE Clean(a \o Slash \o b)

\* index of the last "/" of p, 0 when there is none
LastSlash(p) ==
  IF "/" \in Range(p) THEN CHOOSE i \in 1..Len(p) : p[i] = "/" /\ "/" \notin Range(Drop(p, i))
  ELSE 0

\* filepath.Dir: all but the last element, cleaned
Dir(p) == Clean(Take(p, LastSlash(p)))

\* path.Base: the last element, trailing slashes removed first
Base(p) ==
  IF p = <<>> THEN Dot
  ELSE
    LET q == TrimRight(p, {"/"})
    IN  IF q = <<>> THEN Slash ELSE Drop(q, LastSlash(q))

\* whether the cleaned path p is root or lies below it
Within(root, p) == p = root \/ HasPrefix(p, root \o Slash)

\* safeRel: the cleaned form of "/" + rel must not start with "/.."
safeRel(rel) ==
  LET clean == Clean(Slash \o rel)
  IN  ~HasPrefix(clean, <<"/", ".", ".", "/">>) /\ clean # <<"/", ".", ".">>

\* the path test of unpackCmd: a record is refused when this is false
PathAccepted(rel) == ~(Contains(rel, DotDot) /\ ~safeRel(rel))

\* ------------------------------------------------------------ framing

startMark == <<"-", "-", "-", " ", "F", "I", "L", "E">>

endMark == <<"-", "-", "-", " ", "E", "N", "D", " ", "F", "I", "L", "E", " ", "-", "-", "-">>

\* the literal before the path token of a header line
PathTag(v) ==
  IF v = "raw" THEN <<" ", "p", "a", "t", "h", "=">>
  ELSE <<" ", "p", "a", "t", "h", "_", "b", "6", "4", "=">>

ModeTag == <<" ", "m", "o", "d", "e", "=">>

HeaderTail == <<" ", "-", "-", "-">>

\* the class [[:space:]] of the header expression
SpaceClass == {"\t", "\n", "x0B", "\f", "\r", " "}

OctalDigits == <<"0", "1", "2", "3", "4", "5", "6", "7">>

IsOctal(c) == c \in Range(OctalDigits)

\* "%04o" of permission bits
FormatMode(m) ==
  <<OctalDigits[((m \div 512) % 8) + 1], OctalDigits[((m \div 64) % 8) + 1],
    OctalDigits[((m \div 8) % 8) + 1], OctalDigits[(m % 8) + 1]>>

\* parseOctal: v = (v << 3) | digit over the digits; the result is
\* [ok, mode].  v is a uint32 and headerRe lets through 3 or 4 digits only,
\* so v stays below 2^12 and never wraps.
RECURSIVE OctalValue(_, _)
OctalValue(s, v) ==
  IF s = <<>> THEN v
  ELSE OctalValue(Tail(s), v * 8 + (Ord(s[1]) - Ord("0")))

\* strings.TrimSpace over the bytes the program can meet in a mode string
RECURSIVE TrimLeft(_, _)
TrimLeft(s, cutset) ==
  IF s # <<>> /\ s[1] \in cutset THEN TrimLeft(Tail(s), cutset) ELSE s

TrimSpace(s) == TrimLeft(TrimRight(s, SpaceClass), SpaceClass)

parseOctal(s) ==
  LET t == TrimSpace(s)
  IN  IF t = <<>> \/ \E i \in 1..Len(t) : ~IsOctal(t[i]) THEN [ok |-> FALSE, mode |-> 0]
      ELSE [ok |-> TRUE, mode |-> OctalValue(t, 0)]

\* readLine on the unread input s: [eof, line, n] where n bytes are consumed.
\* The bytes up to the first "\n", or to the end of input when there is none,
\* with every trailing "\r" and "\n" trimmed; end of file only when nothing
\* is left.
readLine(s) ==
  LET i == IndexByte(s, "\n")
      n == IF i = 0 THEN Len(s) ELSE i
  IN  IF s = <<>> THEN [eof |-> TRUE, line |-> <<>>, n |-> 0]
      ELSE [eof |-> FALSE, line |-> TrimRight(Take(s, n), {"\r", "\n"}), n |-> n]

\* length of the longest prefix of s without a byte of SpaceClass
RECURSIVE TokenLen(_)
TokenLen(s) ==
  IF s = <<>> \/ s[1] \in SpaceClass THEN 0 ELSE 1 + TokenLen(Tail(s))

\* A faulty header expression, for comparison: the path group is (.+), so the
\* token runs up to the " mode=" that ends the line.
MatchHeaderGreedy(v, line) ==
  LET pre == startMark \o PathTag(v)
      a == Drop(line, Len(pre))
      fits(d) ==
        LET k == Len(a) - Len(ModeTag) - d - Len(HeaderTail)
            c == Drop(a, k + Len(ModeTag))
        IN  /\ k >= 1
            /\ SubSeq(a, k + 1, k + Len(ModeTag)) = ModeTag
            /\ \A i \in 1..d : IsOctal(c[i])
            /\ Drop(c, d) = HeaderTail
      d == IF fits(3) THEN 3 ELSE 4
      k == Len(a) - Len(ModeTag) - d - Len(HeaderTail)
  IN  IF HasPrefix(line, pre) /\ (fits(3) \/ fits(4))
        THEN [ok |-> TRUE, path |-> Take(a, k), mode |-> SubSeq(a, k + Len(ModeTag) + 1, k + Len(ModeTag) + d)]
        ELSE [ok |-> FALSE, path |-> <<>>, mode |-> <<>>]

\* headerRe on a line: [ok, path, mode].  The path token is one or more
\* bytes outside SpaceClass, so it ends at the first such byte; 3 or 4 octal
\* digits and " ---" must then end the line.
MatchHeader(v, line) ==
  LET pre == startMark \o PathTag(v)
      a == Drop(line, Len(pre))
      k == TokenLen(a)
      b == Drop(a, k)
      c == Drop(b, Len(ModeTag))
      d == Len(c) - Len(HeaderTail)
  IN  IF /\ HasPrefix(line, pre)
         /\ k >= 1
         /\ HasPrefix(b, ModeTag)
         /\ d \in {3, 4}
         /\ \A i \in 1..d : IsOctal(c[i])
         /\ Drop(c, d) = HeaderTail
        THEN [ok |-> TRUE, path |-> Take(a, k), mode |-> Take(c, d)]
        ELSE [ok |-> FALSE, path |-> <<>>, mode |-> <<>>]

\* the header line packCmd writes, without its line break
HeaderLine(v, rel, mode) ==
  startMark \o PathTag(v) \o (IF v = "raw" THEN rel ELSE B64Encode(rel))
    \o ModeTag \o FormatMode(mode) \o HeaderTail

\* one record as packCmd writes it: header line, content (verbatim or as
\* base64), a line break, the end marker line
PackRecord(v, rel, mode, data) ==
  HeaderLine(v, rel, mode) \o <<"\n">>
    \o (IF v = "raw" THEN data ELSE B64Encode(data))
    \o <<"\n">> \o endMark \o <<"\n">>

\* ------------------------------------------------------------ file system

\* --dest of unpack
Dest == <<"o", "u", "t">>

\* A faulty suffix, for comparison: the content is written in place.
TmpSuffixNone == <<>>

\* suffix of the temporary sibling file
TmpSuffix == <<".", "t", "m", "p", "~", "f", "t", "p">>

\* permission bits of a file os.Create makes (0666 under the usual umask
\* 022), which is also the mode unpackCmd starts from
DefaultMode == 420

NoEntry == [kind |-> "none"]

DirEntry == [kind |-> "dir"]

\* A file of the destination: its bytes, its permission bits and the ordinal
\* of the record whose bytes they are (0: there before unpack started).
FileEntry(data, mode, by) == [kind |-> "file", data |-> data, mode |-> mode, by |-> by]

\* the working directory, the root and the parents of the working directory
\* exist and are directories
Ambient(p) ==
  p = Dot \/ p = Slash \/ \A s \in Range(Split(p, "/")) : s = DotDot

Lookup(f, p) ==
  IF p \in DOMAIN f THEN f[p]
  ELSE IF Ambient(p) THEN DirEntry
  ELSE NoEntry

Put(f, p, e) == [q \in DOMAIN f \cup {p} |-> IF q = p THEN e ELSE f[q]]

Remove(f, p) == [q \in DOMAIN f \ {p} |-> f[q]]

Files(f) == {p \in DOMAIN f : f[p].kind = "file"}

\* os.MkdirAll(p): [ok, fs].  An existing directory is success, an existing
\* file is an error, otherwise the parent is made first and then p.
RECURSIVE MkdirAll(_, _)
MkdirAll(f, p) ==
  LET e == Lookup(f, p)
  IN  IF e.kind = "dir" THEN [ok |-> TRUE, fs |-> f]
      ELSE IF e.kind = "file" THEN [ok |-> FALSE, fs |-> f]
      ELSE
        LET r == MkdirAll(f, Dir(p))
        IN  IF r.ok THEN [ok |-> TRUE, fs |-> Put(r.fs, p, DirEntry)] ELSE r

\* the permission bits os.Create asks for: os.OpenFile(name, ..., 0666)
CreatePerm == 438

\* a &^ b on the nine permission bits
RECURSIVE AndNot(_, _, _)
AndNot(a, b, bits) ==
  IF bits = 0 THEN 0
  ELSE (IF a % 2 = 1 /\ b % 2 = 0 THEN 1 ELSE 0) + 2 * AndNot(a \div 2, b \div 2, bits - 1)

\* os.Create(p) by record k in a process with the file mode creation mask
\* mask: [ok, fs].  A directory at p or a missing parent directory is an
\* error; an existing file is truncated and keeps its permission bits, a new
\* file gets the bits of 0666 that the mask leaves
Create(f, p, k, mask) ==
  LET e == Lookup(f, p)
  IN  IF e.kind = "dir" \/ Lookup(f, Dir(p)).kind # "dir" THEN [ok |-> FALSE, fs |-> f]
      ELSE [ok |-> TRUE,
            fs |-> Put(f, p, FileEntry(<<>>,
                     IF e.kind = "file" THEN e.mode ELSE AndNot(CreatePerm, mask, 9), k))]

\* os.Rename(from, to): [ok, fs].  A file cannot replace a directory.
Rename(f, from, to) ==
  IF Lookup(f, from).kind # "file" \/ Lookup(f, to).kind = "dir"
       \/ Lookup(f, Dir(to)).kind # "dir"
    THEN [ok |-> FALSE, fs |-> f]
    ELSE [ok |-> TRUE, fs |-> Put(Remove(f, from), to, f[from])]

\* ------------------------------------------------------------ classifier

\* const sniff of isBinaryFile
sniff == 8192

\* http.DetectContentType looks at no more than this many bytes
sniffLen == 512

\* the bytes DetectContentType skips at the front of the data
SniffSpace == {"\t", "\n", "\f", "\r", " "}

\* the bytes that make DetectContentType give up on text/plain
BinaryDataByte(c) ==
  LET b == Ord(c)
  IN  b <= 8 \/ b = 11 \/ (14 <= b /\ b <= 26) \/ (28 <= b /\ b <= 31)

Mime(t, s) == [type |-> t, subtype |-> s]

\* http.DetectContentType on the signatures that inputs of the model can
\* carry, in the order of the library's table; the text signature is its
\* last entry and application/octet-stream the fallback.
DetectContentType(buf) ==
  LET data == Take(buf, sniffLen)
      body == TrimLeft(data, SniffSpace)
  IN  IF HasPrefix(body, <<"<", "?", "x", "m", "l">>) THEN Mime("text", "xml")
      ELSE IF HasPrefix(data, <<"%", "P", "D", "F", "-">>) THEN Mime("application", "pdf")
      ELSE IF HasPrefix(data, <<"B", "M">>) THEN Mime("image", "bmp")
      ELSE IF HasPrefix(data, <<"G", "I", "F", "8", "7", "a">>) THEN Mime("image", "gif")
      ELSE IF HasPrefix(data, <<"G", "I", "F", "8", "9", "a">>) THEN Mime("image", "gif")
      ELSE IF HasPrefix(data, <<"I", "D", "3">>) THEN Mime("audio", "mpeg")
      ELSE IF HasPrefix(data, <<"O", "T", "T", "O">>) THEN Mime("font", "otf")
      ELSE IF \A i \in 1..Len(body) : ~BinaryDataByte(body[i]) THEN Mime("text", "plain")
      ELSE Mime("application", "octet-stream")

\* heuristic 2 of isBinaryFile: the content types it calls binary
MimeIsBinary(ct) ==
  \/ ct = Mime("application", "octet-stream")
  \/ ct = Mime("application", "x-executable")
  \/ ct.type \in {"image", "audio", "video", "font"}

\* the rune the loop over string(buf) yields for an invalid byte
RuneError == 65533

IsCont(c) == 128 <= Ord(c) /\ Ord(c) <= 191

\* UTF-8 decoding of the front of s as "range string(buf)" does it:
\* [r, w], the rune and the number of bytes it takes; an invalid or cut
\* sequence yields RuneError and takes one byte.
DecodeRune(s) ==
  LET b == Ord(s[1])
      n == IF b < 128 THEN 1
           ELSE IF 194 <= b /\ b <= 223 THEN 2
           ELSE IF 224 <= b /\ b <= 239 THEN 3
           ELSE IF 240 <= b /\ b <= 244 THEN 4
           ELSE 0
      lo == IF b = 224 THEN 160 ELSE IF b = 240 THEN 144 ELSE 128
      hi == IF b = 237 THEN 159 ELSE IF b = 244 THEN 143 ELSE 191
      bad == [r |-> RuneError, w |-> 1]
  IN  IF n = 1 THEN [r |-> b, w |-> 1]
      ELSE IF n = 0 \/ Len(s) < n THEN bad
      ELSE IF Ord(s[2]) < lo \/ Ord(s[2]) > hi THEN bad
      ELSE IF \E i \in 3..n : ~IsCont(s[i]) THEN bad
      ELSE IF n = 2 THEN [r |-> (b % 32) * 64 + (Ord(s[2]) % 64), w |-> 2]
      ELSE IF n = 3 THEN
        [r |-> (b % 16) * 4096 + (Ord(s[2]) % 64) * 64 + (Ord(s[3]) % 64), w |-> 3]
      ELSE
        [r |-> (b % 8) * 262144 + (Ord(s[2]) % 64) * 4096 + (Ord(s[3]) % 64) * 64
                 + (Ord(s[4]) % 64),
         w |-> 4]

RECURSIVE Runes(_)
Runes(s) ==
  IF s = <<>> THEN <<>>
  ELSE LET d == DecodeRune(s) IN <<d.r>> \o Runes(Drop(s, d.w))

\* unicode.IsSpace, for the runes below U+0100
IsSpace(r) == r \in {9, 10, 11, 12, 13, 32, 133, 160}

\* unicode.IsPrint, for the runes below U+0100 and the replacement rune:
\* letters, marks, numbers, punctuation, symbols and the ASCII space
IsPrint(r) ==
  CASE r < 256 -> (32 <= r /\ r <= 126) \/ (161 <= r /\ r <= 172) \/ (174 <= r /\ r <= 255)
    [] r = RuneError -> TRUE

\* heuristic 3 of isBinaryFile: whether the loop counts rune r as printable
CountsPrintable(r) ==
  IF r \in {10, 13, 9} THEN TRUE
  ELSE IF r = RuneError THEN FALSE
  ELSE IF r < 32 \/ (~IsPrint(r) /\ ~IsSpace(r)) THEN FALSE
  ELSE TRUE

Printable(buf) == Len(SelectSeq(Runes(buf), CountsPrintable))

NonPrintable(buf) == Len(SelectSeq(Runes(buf), LAMBDA r : ~CountsPrintable(r)))

\* A faulty threshold, for comparison: >= in place of >.
RatioAtLeast(n, t) == 10 * n >= 3 * t

\* float64(nonPrintable)/float64(printable+nonPrintable) > 0.30.  The
\* quotient of two integers up to 8192 is the double nearest to n/t, and
\* 0.30 is the double nearest to 3/10: the two are equal when 10n = 3t and
\* are apart in the order of the exact values otherwise, so the comparison
\* is that of 10n with 3t.
RatioExceeds(n, t) == 10 * n > 3 * t

\* isBinaryFile on the bytes buf[:n] its read returned
isBinaryFile(buf) ==
  IF Len(buf) = 0 THEN FALSE
  ELSE IF "NUL" \in Range(buf) THEN TRUE
  ELSE IF MimeIsBinary(DetectContentType(buf)) THEN TRUE
  ELSE IF Printable(buf) = 0 THEN TRUE
  ELSE IF RatioExceeds(NonPrintable(buf), Printable(buf) + NonPrintable(buf)) THEN TRUE
  ELSE FALSE

\* the numbers of bytes the read of isBinaryFile can return for a file of
\* len bytes: io.ReadAtLeast(f, buf, 1) stops once one byte or more has been
\* read, io.ReadFull reads until the buffer is full or the file ends
SniffCounts(v, len) ==
  LET full == IF len < sniff THEN len ELSE sniff
  IN  IF v = "raw" THEN (IF len = 0 THEN {0} ELSE 1..full) ELSE {full}

\* ------------------------------------------------------------ exclusion

defaultExcludes ==
  <<
    <<".", "g", "i", "t">>,
    <<".", "s", "v", "n">>,
    <<".", "h", "g">>,
    <<".", "i", "d", "e", "a">>,
    <<".", "v", "s", "c", "o", "d", "e">>,
    <<"n", "o", "d", "e", "_", "m", "o", "d", "u", "l", "e", "s">>,
    <<".", "v", "e", "n", "v">>,
    <<".", "D", "S", "_", "S", "t", "o", "r", "e">>,
    <<"*", ".", "p", "n", "g">>,
    <<"*", ".", "j", "p", "g">>,
    <<"*", ".", "j", "p", "e", "g">>,
    <<"*", ".", "g", "i", "f">>,
    <<"*", ".", "w", "e", "b", "p">>,
    <<"*", ".", "i", "c", "o">>,
    <<"*", ".", "p", "d", "f">>,
    <<"*", ".", "z", "i", "p">>,
    <<"*", ".", "t", "a", "r">>,
    <<"*", ".", "g", "z">>,
    <<"*", ".", "x", "z">>,
    <<"*", ".", "7", "z">>,
    <<"*", ".", "r", "a", "r">>,
    <<"*", ".", "j", "a", "r">>,
    <<"*", ".", "w", "a", "r">>,
    <<"*", ".", "c", "l", "a", "s", "s">>,
    <<"*", ".", "s", "o">>,
    <<"*", ".", "d", "l", "l">>,
    <<"*", ".", "d", "y", "l", "i", "b">>,
    <<"*", ".", "b", "i", "n">>,
    <<"*", ".", "e", "x", "e">>
  >>

\* getEsc of path.Match: one character of a class, [ok, c, rest]
GetEsc(p) ==
  IF p = <<>> \/ p[1] \in {"-", "]"} THEN [ok |-> FALSE, c |-> "", rest |-> <<>>]
  ELSE IF p[1] = "\\" THEN
    IF Len(p) < 2 THEN [ok |-> FALSE, c |-> "", rest |-> <<>>]
    ELSE [ok |-> TRUE, c |-> p[2], rest |-> Drop(p, 2)]
  ELSE [ok |-> TRUE, c |-> p[1], rest |-> Tail(p)]

\* the ranges of a character class, read after "[" and "^": [ok, items,
\* rest]; "]" closes the class once it has a range
RECURSIVE ClassItems(_, _)
ClassItems(p, n) ==
  LET bad == [ok |-> FALSE, items |-> <<>>, rest |-> <<>>]
      lo == GetEsc(p)
  IN  IF p # <<>> /\ p[1] = "]" /\ n > 0 THEN [ok |-> TRUE, items |-> <<>>, rest |-> Tail(p)]
      ELSE IF ~lo.ok \/ lo.rest = <<>> THEN bad
      ELSE IF lo.rest[1] = "-" THEN
        LET hi == GetEsc(Tail(lo.rest))
        IN  IF ~hi.ok \/ hi.rest = <<>> THEN bad
            ELSE
              LET more == ClassItems(hi.rest, n + 1)
              IN  [ok |-> more.ok, items |-> <<<<lo.c, hi.c>>>> \o more.items, rest |-> more.rest]
      ELSE
        LET more == ClassItems(lo.rest, n + 1)
        IN  [ok |-> more.ok, items |-> <<<<lo.c, lo.c>>>> \o more.items, rest |-> more.rest]

\* path.Match(pattern, name), the error of a malformed pattern read as no
\* match (the caller drops it): "*" is any run of bytes other than "/", "?"
\* one byte other than "/", "[...]" one byte of the class, "\\c" the byte c
RECURSIVE Match(_, _)
Match(pat, name) ==
  IF pat = <<>> THEN name = <<>>
  ELSE IF pat[1] = "*" THEN
    \/ Match(Tail(pat), name)
    \/ name # <<>> /\ name[1] # "/" /\ Match(pat, Tail(name))
  ELSE IF pat[1] = "?" THEN
    name # <<>> /\ name[1] # "/" /\ Match(Tail(pat), Tail(name))
  ELSE IF pat[1] = "[" THEN
    LET neg == Len(pat) >= 2 /\ pat[2] = "^"
        cl == ClassItems(Drop(pat, IF neg THEN 2 ELSE 1), 0)
    IN  /\ cl.ok
        /\ name # <<>>
        /\ neg # (\E i \in 1..Len(cl.items) :
                    Ord(cl.items[i][1]) <= Ord(name[1]) /\ Ord(name[1]) <= Ord(cl.items[i][2]))
        /\ Match(cl.rest, Tail(name))
  ELSE IF pat[1] = "\\" THEN
    Len(pat) >= 2 /\ name # <<>> /\ name[1] = pat[2] /\ Match(Drop(pat, 2), Tail(name))
  ELSE name # <<>> /\ name[1] = pat[1] /\ Match(Tail(pat), Tail(name))

\* parseExcludes: the comma-separated flag, each part trimmed, empty parts
\* dropped
parseExcludes(csv) ==
  IF TrimSpace(csv) = <<>> THEN <<>>
  ELSE
    LET parts == Split(csv, ",")
        trimmed == [i \in 1..Len(parts) |-> TrimSpace(parts[i])]
    IN  SelectSeq(trimmed, LAMBDA p : p # <<>>)

GlobMeta == {"*", "?", "[", "]"}

\* A faulty evaluator, for comparison: every pattern is matched against the
\* whole relative path.
excludedWholePath(rel, patterns) ==
  \E i \in 1..Len(patterns) :
    LET pat == TrimSpace(patterns[i])
    IN  pat # <<>> /\ Match(pat, rel)

\* excluded(rel, d, patterns)
excluded(rel, patterns) ==
  LET base == Base(rel)
  IN  \E i \in 1..Len(patterns) :
        LET pat == TrimSpace(patterns[i])
        IN  /\ pat # <<>>
            /\ IF Contains(pat, Slash) THEN Match(pat, rel)
               ELSE \/ Match(pat, base)
                    \/ Range(pat) \cap GlobMeta = {} /\ base = pat

\* ------------------------------------------------------------ output buffer

\* the default of --out, as a path relative to the default of --root
OutName ==
  <<"f", "i", "l", "e", "s", "-", "p", "r", "o", "m", "p", "t", ".", "t", "x", "t">>

\* the length of the output at which the model stops following a copy
MaxOut == 400

\* w := bufio.NewWriter(outf): the size of w's buffer.  The library's buffer
\* has 4096 bytes; the model's is small, so that a few short records fill it.
BufSize == 64

\* the bytes in w's buffer after w.Write (or w.WriteString) of n bytes with b
\* bytes buffered: what does not fit makes the buffer flush, and a write
\* larger than the empty buffer goes to the file directly
BufWrite(b, n) ==
  IF n <= BufSize - b THEN b + n
  ELSE IF b = 0 THEN 0
  ELSE LET more == n - (BufSize - b)
       IN  IF more > BufSize THEN 0 ELSE more

\* the bytes in w's buffer after io.Copy(w, f), that is w.ReadFrom(f), of a
\* file of n bytes with b bytes buffered: f is read into the free part of
\* the buffer, and once the buffer is empty (at the start, or after the flush
\* of the full buffer) the file is copied to the output directly
BufReadFrom(b, n) == IF b = 0 \/ n >= BufSize - b THEN 0 ELSE b + n

\* one transfer into w: n bytes, read from a file (io.Copy) or written
WriteOp(n) == [read |-> FALSE, n |-> n]

ReadOp(n) == [read |-> TRUE, n |-> n]

OpBuffered(b, op) == IF op.read THEN BufReadFrom(b, op.n) ELSE BufWrite(b, op.n)

\* whether the transfer writes to the output file
OpFlushes(b, op) ==
  IF op.read THEN b = BufSize \/ (b = 0 /\ op.n > 0) \/ (b > 0 /\ op.n >= BufSize - b)
  ELSE op.n > BufSize - b

RECURSIVE OpsBuffered(_, _)
OpsBuffered(b, ops) ==
  IF ops = <<>> THEN b ELSE OpsBuffered(OpBuffered(b, Head(ops)), Tail(ops))

RECURSIVE OpsFlush(_, _)
OpsFlush(b, ops) ==
  IF ops = <<>> THEN FALSE
  ELSE OpFlushes(b, Head(ops)) \/ OpsFlush(OpBuffered(b, Head(ops)), Tail(ops))

\* how the content of a file, n bytes of it read, reaches w.  raw: io.Copy
\* from the file. b64: the encoder writes the whole groups of three bytes in
\* one Write (files shorter than its 768-byte chunk, as all files here are)
\* and Close writes the padded last group
ContentOps(v, n) ==
  IF v = "raw" THEN <<ReadOp(n)>>
  ELSE (IF n >= 3 THEN <<WriteOp(4 * (n \div 3))>> ELSE <<>>)
         \o (IF n % 3 # 0 THEN <<WriteOp(4)>> ELSE <<>>)

\* the transfers of the header line
HeaderOps(v, rel, mode) == <<WriteOp(Len(HeaderLine(v, rel, mode)) + 1)>>

\* the transfers of one whole record
RecordOps(v, rel, mode, data) ==
  HeaderOps(v, rel, mode) \o ContentOps(v, Len(data)) \o <<WriteOp(Len(endMark) + 2)>>

\* what pack has written of a record when the read of the content fails
\* after n bytes: the header line and the n bytes (b64: encoded and closed)
PartialRecord(v, rel, mode, data, n) ==
  HeaderLine(v, rel, mode) \o <<"\n">>
    \o (IF v = "raw" THEN Take(data, n) ELSE B64Encode(Take(data, n)))

\* ------------------------------------------------------------ inputs

\* bounds of the inputs
MaxPrintable == 8

MaxNonPrintable == 4

MaxItems == 2

\* the most bytes one write to the temporary file adds before the process
\* can be interrupted
MaxChunk == 2

Variants == {"raw", "b64"}

\* file mode creation masks: 022 and 077
Umasks == {18, 63}

D(rel) == [rel |-> rel, kind |-> "dir", data |-> <<>>, mode |-> 493]

F(rel, data, mode) == [rel |-> rel, kind |-> "file", data |-> data, mode |-> mode]

L(rel, data) == [rel |-> rel, kind |-> "symlink", data |-> data, mode |-> 511]

\* a header line of the raw variant for path z, as bytes of a file
HeaderZ == HeaderLine("raw", <<"z">>, 420)

\* contents of the text files: empty, with and without final line breaks,
\* with carriage returns, with the end marker as a line, and with an end
\* marker line followed by a header line or by a bare start marker, with a
\* line that starts with the start marker followed by an end marker line
Contents ==
  {
    <<>>,
    <<"x">>,
    <<"x", "\n">>,
    <<"x", "\n", "\n">>,
    <<"\n">>,
    <<"x", "\r">>,
    <<"x", "\r", "\n", "y">>,
    endMark,
    <<"p", "\n">> \o endMark \o <<"\n", "q">>,
    endMark \o <<"\n">> \o HeaderZ \o <<"\n", "Z">>,
    endMark \o <<"\n">> \o startMark \o <<"\n">>,
    startMark \o <<" ", "x", "\n">> \o endMark \o <<"\n", "q">>
  }

Modes == {420, 493, 256}

\* trees are sequences of entries in the order filepath.WalkDir visits them:
\* depth first, the names of a directory in lexical order
TextTrees ==
  {<<F(<<"a">>, c1, m), D(<<"s">>), F(<<"s", "/", "b">>, c2, 420)>> :
     c1 \in Contents, c2 \in {<<>>, <<"y", "\n">>}, m \in Modes}

SpaceTree == <<F(<<"b", " ", "c">>, <<"z">>, 420)>>

ExclusionTree ==
  <<
    D(<<".", "g", "i", "t">>),
    F(<<".", "g", "i", "t", "/", "c">>, <<"c">>, 420),
    D(<<".", "g", "i", "t", "/", "o">>),
    F(<<".", "g", "i", "t", "/", "o", "/", "k">>, <<"k", "e", "y">>, 256),
    F(<<"a", ".", "p", "n", "g">>, <<"x">>, 420),
    F(<<"b">>, <<"h", "i", "\n">>, 420),
    D(<<"g", "e", "n">>),
    F(<<"g", "e", "n", "/", "g">>, <<"g">>, 420),
    L(<<"l", "n">>, <<"t">>),
    D(<<"s">>),
    D(<<"s", "/", "g", "e", "n">>),
    F(<<"s", "/", "g", "e", "n", "/", "h">>, <<"h">>, 420),
    D(<<"s", "/", "n", "o", "d", "e", "_", "m", "o", "d", "u", "l", "e", "s">>),
    F(<<"s", "/", "n", "o", "d", "e", "_", "m", "o", "d", "u", "l", "e", "s", "/", "i">>, <<"i">>, 420)
  >>

\* samples for the classifier: p printable bytes, then n bytes that are not
Samples ==
  {Repeat(<<"a">>, p) \o Repeat(<<c>>, n) :
     p \in 0..MaxPrintable, n \in 0..MaxNonPrintable, c \in {"ESC", "x80", "NUL"}}
  \cup {<<"xC3", "xA9">>, <<"xC3">>, <<"%", "P", "D", "F", "-">>,
        <<"G", "I", "F", "8", "9", "a">>, <<"B", "M", "W">>, <<"a", "x01">>}

SampleTrees == {<<F(<<"f">>, s, 420)>> : s \in Samples}

\* values of --exclude: the default, and a list with a pattern on the whole
\* relative path
DefaultFlag == JoinSep(defaultExcludes, <<",">>)

CustomFlag ==
  <<".", "g", "i", "t", ",", " ", "s", "/", "g", "e", "n", " ", ",", ",", "*", ".", "p", "n", "g">>

\* trees that hold the output file (pack --root . --out files-prompt.txt),
\* as os.Create has left it: alone, and after a file whose record fills the
\* buffer of the writer
SelfTrees ==
  {<<F(OutName, <<>>, 420)>>,
   <<F(<<"a">>, Repeat(<<"x">>, 20), 420), F(OutName, <<>>, 420)>>}

\* a list with a name, a pattern on the whole relative path and a glob on
\* the name
DepthFlag ==
  <<"n", "o", "d", "e", "_", "m", "o", "d", "u", "l", "e", "s", ",", "s", "/", "g", "e", "n", ",", "?", "n">>

PackInputs ==
  ((TextTrees \cup SampleTrees \cup SelfTrees \cup {SpaceTree, ExclusionTree}) \X {DefaultFlag})
    \cup ({ExclusionTree} \X {CustomFlag, DepthFlag})

\* pieces of the archives given to unpack: whole records, a record cut
\* before its end marker, a record with a body written as given, and lines
Rec(rel, mode, data) == [t |-> "rec", rel |-> rel, mode |-> mode, data |-> data]

Cut(rel, mode, data) == [t |-> "cut", rel |-> rel, mode |-> mode, data |-> data]

Body(rel, mode, body) == [t |-> "body", rel |-> rel, mode |-> mode, data |-> body]

Text(bytes) == [t |-> "text", rel |-> <<>>, mode |-> 0, data |-> bytes]

Items ==
  {
    Rec(<<"a">>, 420, <<"A", "\n">>),
    Rec(<<"a">>, 493, <<"B">>),
    Rec(<<"a">> \o TmpSuffix, 384, <<"T">>),
    Rec(<<"d", "/", "e">>, 420, <<"D", "\n", "\n">>),
    Rec(<<".", ".", "/", "x">>, 420, <<"X">>),
    Rec(<<"d", "/", ".", ".", "/", ".", ".", "/", "y">>, 420, <<"Y">>),
    Rec(<<"d">>, 420, <<"F">>),
    Cut(<<"a">>, 420, <<"C">>),
    Body(<<"q">>, 420, <<"Q", "U", "J", "D", "!", "!", "!", "!">>),
    Text(<<"-", "-", "-", " ", "F", "I", "L", "E", " ", "p", "a", "t", "h", "=", "a", " ", "b",
           " ", "m", "o", "d", "e", "=", "0", "6", "4", "4", " ", "-", "-", "-", "\n">>),
    Text(<<"j", "u", "n", "k", "\n">>),
    Text(endMark)
  }

Render(v, it) ==
  IF it.t = "rec" THEN PackRecord(v, it.rel, it.mode, it.data)
  ELSE IF it.t = "cut" THEN
    HeaderLine(v, it.rel, it.mode) \o <<"\n">>
      \o (IF v = "raw" THEN it.data ELSE B64Encode(it.data)) \o <<"\n">>
  ELSE IF it.t = "body" THEN
    HeaderLine(v, it.rel, it.mode) \o <<"\n">> \o it.data \o <<"\n">> \o endMark \o <<"\n">>
  ELSE it.data

RECURSIVE ItemSeqs(_)
ItemSeqs(n) ==
  IF n = 0 THEN {<<>>}
  ELSE LET shorter == ItemSeqs(n - 1)
       IN  shorter \cup {Append(s, it) : s \in {t \in shorter : Len(t) = n - 1}, it \in Items}

RECURSIVE RenderAll(_, _)
RenderAll(v, its) ==
  IF its = <<>> THEN <<>> ELSE Render(v, Head(its)) \o RenderAll(v, Tail(its))

\* two records for one path whose name has the temporary suffix, and then a
\* record for the path without the suffix
Collision ==
  <<Rec(<<"a">> \o TmpSuffix, 384, <<"T">>),
    Rec(<<"a">> \o TmpSuffix, 420, <<"U">>),
    Rec(<<"a">>, 420, <<"A", "\n">>)>>

Archives(v) ==
  {RenderAll(v, its) : its \in ItemSeqs(MaxItems) \ {<<>>}} \cup {RenderAll(v, Collision)}

\* ------------------------------------------------------------ state

VARIABLES
  cmd,       \* "pack": pack, then unpack of what it wrote; "unpack": unpack of a given archive
  variant,   \* which of the two programs runs
  excludes,  \* pack: the parsed --exclude patterns
  tree,      \* pack: the tree under --root
  walk,      \* pack: the entries WalkDir has still to visit
  ppc,       \* pack: where packCmd is
  sniffed,   \* pack: buf[:n] of isBinaryFile for the file being visited
  bin,       \* pack: what isBinaryFile returned for it
  packed,    \* pack: the relative paths a record was written for, in order
  out,       \* pack: the bytes written to w, the buffered writer of --out
  buffered,  \* pack: how many of them, the last ones, have not reached the file
  rpos,      \* pack: how many bytes io.Copy has read of the file it is copying
  rest,      \* unpack: the input not yet read
  fs,        \* unpack: the files and directories at and around --dest
  upc,       \* unpack: where unpackCmd is
  cur,       \* unpack: the record being processed
  done,      \* unpack: the records renamed to their final path, in order
  err,       \* the fatal error, "" when there is none
  umask,     \* the file mode creation mask of the process
  ioFault    \* whether a system call failed for a reason outside the program

vars ==
  <<cmd, variant, excludes, tree, walk, ppc, sniffed, bin, packed, out, buffered,
    rpos, rest, fs, upc, cur, done, err, umask, ioFault>>

packVars == <<excludes, tree, walk, ppc, sniffed, bin, packed, out, buffered, rpos>>

unpackVars == <<rest, fs, upc, cur, done>>

\* the bytes of the file --out
OutFile == Take(out, Len(out) - buffered)

\* the bytes of the file of a tree entry: the output file, when --out lies in
\* the tree, holds what pack has written to it so far
Content(e) == IF e.rel = OutName THEN OutFile ELSE e.data

NoRecord ==
  [rel |-> <<>>, modeStr |-> <<>>, full |-> <<>>, tmp |-> <<>>, buf |-> <<>>, prev |-> NoEntry]

\* unpackCmd starts with os.MkdirAll(dest)
InitialFs == MkdirAll(<<>>, Dest).fs

Init ==
  /\ variant \in Variants
  /\ umask \in Umasks
  /\ cmd \in {"pack", "unpack"}
  /\ IF cmd = "pack"
       THEN /\ \E in \in PackInputs : tree = in[1] /\ excludes = parseExcludes(in[2])
            /\ walk = tree
            /\ ppc = "walk"
            /\ rest = <<>>
            /\ upc = "idle"
       ELSE /\ tree = <<>>
            /\ excludes = <<>>
            /\ walk = <<>>
            /\ ppc = "idle"
            /\ rest \in Archives(variant)
            /\ upc = "scan"
  /\ sniffed = <<>>
  /\ bin = FALSE
  /\ packed = <<>>
  /\ out = <<>>
  /\ buffered = 0
  /\ rpos = 0
  /\ fs = InitialFs
  /\ cur = NoRecord
  /\ done = <<>>
  /\ err = ""
  /\ ioFault = FALSE

\* ------------------------------------------------------------ pack

\* A faulty walk, for comparison: SkipDir is returned as nil and the walk
\* goes on into the directory.
SkipDirNone(w, rel) == w

\* what is left of the walk after the callback returned SkipDir for rel
SkipDir(w, rel) == SelectSeq(w, LAMBDA e : ~HasPrefix(e.rel, rel \o Slash))

\* the entries the callback leaves without opening them: directories, and
\* in the raw variant everything that is not a regular file
SkippedKind(v, e) == IF v = "raw" THEN e.kind # "file" ELSE e.kind = "dir"

\* the WalkDir callback up to the binary check
PVisit ==
  /\ ppc = "walk"
  /\ walk # <<>>
  /\ LET e == Head(walk)
     IN  IF excluded(e.rel, excludes) THEN
           /\ walk' = IF e.kind = "dir" THEN SkipDir(Tail(walk), e.rel) ELSE Tail(walk)
           /\ ppc' = ppc
         ELSE IF SkippedKind(variant, e) THEN
           /\ walk' = Tail(walk)
           /\ ppc' = ppc
         ELSE
           /\ walk' = walk
           /\ ppc' = "sniff"
  /\ UNCHANGED <<cmd, variant, umask, excludes, tree, sniffed, bin, packed, out, buffered,
                 rpos, err, ioFault>>
  /\ UNCHANGED unpackVars

\* a directory the callback did not skip cannot be read: WalkDir calls the
\* callback again with walkErr, the callback returns it, WalkDir returns it
\* and packCmd calls fatal, which exits without the deferred w.Flush()
PWalkErr ==
  /\ ppc = "walk"
  /\ walk # <<>>
  /\ Head(walk).kind = "dir"
  /\ ~excluded(Head(walk).rel, excludes)
  /\ ppc' = "fatal"
  /\ err' = "walk"
  /\ ioFault' = TRUE
  /\ UNCHANGED <<cmd, variant, umask, excludes, tree, walk, sniffed, bin, packed, out,
                 buffered, rpos>>
  /\ UNCHANGED unpackVars

\* isBinaryFile(p): the read returns n bytes; or os.Open fails, isBinaryFile
\* returns the error and the callback returns nil
PSniff ==
  /\ ppc = "sniff"
  /\ \/ /\ \E n \in SniffCounts(variant, Len(Content(Head(walk)))) :
             /\ sniffed' = Take(Content(Head(walk)), n)
             /\ bin' = isBinaryFile(Take(Content(Head(walk)), n))
        /\ ppc' = "emit"
        /\ UNCHANGED <<walk, ioFault>>
     \/ /\ walk' = Tail(walk)
        /\ ppc' = "walk"
        /\ ioFault' = TRUE
        /\ UNCHANGED <<sniffed, bin>>
  /\ UNCHANGED <<cmd, variant, umask, excludes, tree, packed, out, buffered, rpos, err>>
  /\ UNCHANGED unpackVars

\* the callback returns nil and WalkDir goes on to the next entry
PSkip ==
  /\ walk' = Tail(walk)
  /\ ppc' = "walk"
  /\ sniffed' = <<>>
  /\ bin' = FALSE

\* the rest of the callback up to the copy: nothing for a binary file,
\* nothing when os.Open or d.Info fails, otherwise the header, the content
\* and the end marker; an error of the copy or of a write to the output is
\* returned, and packCmd calls fatal.  The copy of a file other than the
\* output file is taken in one step; of the output file only the header is
\* written here, and PCopy follows the copy read by read
PEmit ==
  /\ ppc = "emit"
  /\ LET e   == Head(walk)
         ops == RecordOps(variant, e.rel, e.mode % 512, e.data)
     IN  \/ /\ bin
            /\ PSkip
            /\ UNCHANGED <<packed, out, buffered, err, ioFault>>
         \/ /\ ~bin
            /\ PSkip
            /\ ioFault' = TRUE
            /\ UNCHANGED <<packed, out, buffered, err>>
         \/ /\ ~bin
            /\ e.rel # OutName
            /\ PSkip
            /\ out' = out \o PackRecord(variant, e.rel, e.mode % 512, e.data)
            /\ buffered' = OpsBuffered(buffered, ops)
            /\ packed' = Append(packed, e.rel)
            /\ UNCHANGED <<err, ioFault>>
         \/ /\ ~bin
            /\ e.rel = OutName
            /\ out' = out \o HeaderLine(variant, e.rel, e.mode % 512) \o <<"\n">>
            /\ buffered' = OpsBuffered(buffered, HeaderOps(variant, e.rel, e.mode % 512))
            /\ ppc' = "copy"
            /\ UNCHANGED <<walk, sniffed, bin, packed, err, ioFault>>
         \/ /\ ~bin
            /\ \E n \in {0, Len(e.data)} :
                 /\ out' = out \o PartialRecord(variant, e.rel, e.mode % 512, e.data, n)
                 /\ buffered' = OpsBuffered(buffered, HeaderOps(variant, e.rel, e.mode % 512)
                                                        \o ContentOps(variant, n))
            /\ ppc' = "fatal"
            /\ err' = "read"
            /\ ioFault' = TRUE
            /\ UNCHANGED <<walk, sniffed, bin, packed>>
         \/ /\ ~bin
            /\ OpsFlush(buffered, ops)
            /\ ppc' = "fatal"
            /\ err' = "write"
            /\ ioFault' = TRUE
            /\ UNCHANGED <<walk, sniffed, bin, packed, out, buffered>>
  /\ UNCHANGED <<cmd, variant, umask, excludes, tree, rpos>>
  /\ UNCHANGED unpackVars

\* one read of the copy of the output file into itself.  raw: w.ReadFrom(f)
\* flushes a full buffer, reads into the free part of the buffer, and with
\* an empty buffer copies from f to the output file directly.  b64: io.Copy
\* reads what there is, the encoder writes the whole groups of three bytes
\* and keeps the rest.  At the end of the file (b64: after enc.Close, which
\* writes the padded last group) the end marker is written and the callback
\* returns nil
PCopy ==
  /\ ppc = "copy"
  /\ LET e      == Head(walk)
         b      == IF variant = "raw" /\ buffered = BufSize THEN 0 ELSE buffered
         file   == Take(out, Len(out) - b)
         unread == Len(file) - rpos
         q      == rpos % 3
     IN  IF unread = 0 THEN
           /\ out' = out \o (IF variant = "b64" THEN B64Encode(SubSeq(file, rpos - q + 1, rpos))
                             ELSE <<>>)
                         \o <<"\n">> \o endMark \o <<"\n">>
           /\ buffered' = OpsBuffered(b, (IF variant = "b64" /\ q # 0 THEN <<WriteOp(4)>> ELSE <<>>)
                                           \o <<WriteOp(Len(endMark) + 2)>>)
           /\ packed' = Append(packed, e.rel)
           /\ rpos' = 0
           /\ PSkip
         ELSE
           /\ Len(out) < MaxOut
           /\ IF variant = "raw" THEN
                LET m == IF b = 0 \/ unread < BufSize - b THEN unread ELSE BufSize - b
                IN  /\ out' = out \o SubSeq(file, rpos + 1, rpos + m)
                    /\ buffered' = IF b = 0 THEN 0 ELSE b + m
                    /\ rpos' = rpos + m
              ELSE
                LET groups == (rpos + unread) \div 3 - rpos \div 3
                    ops == IF groups = 0 THEN <<>>
                           ELSE IF q = 0 THEN <<WriteOp(4 * groups)>>
                           ELSE <<WriteOp(4)>>
                                  \o (IF groups > 1 THEN <<WriteOp(4 * (groups - 1))>> ELSE <<>>)
                IN  /\ out' = out \o B64Encode(SubSeq(file, rpos - q + 1, rpos - q + 3 * groups))
                    /\ buffered' = OpsBuffered(b, ops)
                    /\ rpos' = rpos + unread
           /\ UNCHANGED <<walk, ppc, sniffed, bin, packed>>
  /\ UNCHANGED <<cmd, variant, umask, excludes, tree, err, ioFault>>
  /\ UNCHANGED unpackVars

\* WalkDir returns nil: the deferred w.Flush() and outf.Close() run, the
\* error of the flush is not looked at
PDone ==
  /\ ppc = "walk"
  /\ walk = <<>>
  /\ ppc' = "done"
  /\ \/ buffered' = 0 /\ ioFault' = ioFault
     \/ buffered > 0 /\ buffered' = buffered /\ ioFault' = TRUE
  /\ UNCHANGED <<cmd, variant, umask, excludes, tree, walk, sniffed, bin, packed, out, rpos, err>>
  /\ UNCHANGED unpackVars

\* unpack --in <the file pack wrote>
StartUnpack ==
  /\ ppc = "done"
  /\ upc = "idle"
  /\ rest' = OutFile
  /\ upc' = "scan"
  /\ UNCHANGED <<cmd, variant, umask, fs, cur, done, err, ioFault>>
  /\ UNCHANGED packVars

\* ------------------------------------------------------------ unpack

\* the bytes unpackCmd writes for the lines it collected: [ok, data].  raw:
\* the buffer less one final "\n"; b64: the decoding of the buffer, cut
\* where the base64 is found corrupt.
Payload(v, buf) ==
  IF v = "raw" THEN
    [ok |-> TRUE,
     data |-> IF buf # <<>> /\ buf[Len(buf)] = "\n" THEN SubSeq(buf, 1, Len(buf) - 1) ELSE buf]
  ELSE B64Decode(buf)

\* what a content line adds to the buffer
Buffered(v, line) == IF v = "raw" THEN line \o <<"\n">> ELSE line

\* the relative path a header's token stands for: [ok, data]
HeaderPath(v, token) == IF v = "raw" THEN [ok |-> TRUE, data |-> token] ELSE B64Decode(token)

\* the permission bits os.Chmod is called with
ChmodBits(modeStr) ==
  LET m == parseOctal(modeStr)
  IN  (IF m.ok THEN m.mode ELSE DefaultMode) % 512

Running == upc \in {"scan", "mkdir", "content", "create", "write", "close", "chmod", "rename"}

InFlight == cur # NoRecord

\* the scanning loop reaches the end of the input
UEof ==
  /\ upc = "scan"
  /\ readLine(rest).eof
  /\ upc' = "done"
  /\ UNCHANGED <<cmd, variant, umask, rest, fs, cur, done, err, ioFault>>
  /\ UNCHANGED packVars

\* A faulty scanner, for comparison: a line between records that is not a
\* header stops the run.
USkipStrict ==
  /\ upc = "scan"
  /\ ~readLine(rest).eof
  /\ ~HasPrefix(readLine(rest).line, startMark)
  /\ upc' = "fatal"
  /\ err' = "malformed header"
  /\ UNCHANGED <<cmd, variant, umask, rest, fs, cur, done, ioFault>>
  /\ UNCHANGED packVars

\* a line that does not start with the start marker is passed over
USkip ==
  /\ upc = "scan"
  /\ ~readLine(rest).eof
  /\ ~HasPrefix(readLine(rest).line, startMark)
  /\ rest' = Drop(rest, readLine(rest).n)
  /\ UNCHANGED <<cmd, variant, umask, fs, upc, cur, done, err, ioFault>>
  /\ UNCHANGED packVars

\* a line that starts with the start marker: the header expression, the
\* decoding of the path, the path test, the final path
UHeader ==
  /\ upc = "scan"
  /\ ~readLine(rest).eof
  /\ HasPrefix(readLine(rest).line, startMark)
  /\ rest' = Drop(rest, readLine(rest).n)
  /\ LET m == MatchHeader(variant, readLine(rest).line)
         p == HeaderPath(variant, m.path)
         full == Join(Dest, p.data)
     IN  IF ~m.ok THEN
           /\ upc' = "fatal" /\ err' = "malformed header" /\ cur' = cur
         ELSE IF ~p.ok THEN
           /\ upc' = "fatal" /\ err' = "decode path base64" /\ cur' = cur
         ELSE IF ~PathAccepted(p.data) THEN
           /\ upc' = "fatal" /\ err' = "unsafe path in archive" /\ cur' = cur
         ELSE
           /\ upc' = "mkdir"
           /\ err' = err
           /\ cur' = [rel |-> p.data, modeStr |-> m.mode, full |-> full,
                      tmp |-> full \o TmpSuffix, buf |-> <<>>, prev |-> Lookup(fs, full)]
  /\ UNCHANGED <<cmd, variant, umask, fs, done, ioFault>>
  /\ UNCHANGED packVars

\* os.MkdirAll(filepath.Dir(full))
UMkdir ==
  /\ upc = "mkdir"
  /\ LET r == MkdirAll(fs, Dir(cur.full))
     IN  IF r.ok THEN fs' = r.fs /\ upc' = "content" /\ err' = err
         ELSE fs' = fs /\ upc' = "fatal" /\ err' = "mkdir"
  /\ UNCHANGED <<cmd, variant, umask, rest, cur, done, ioFault>>
  /\ UNCHANGED packVars

\* A faulty content loop, for comparison: the end of the input ends the
\* record as the end marker does.
UContentEofEnds ==
  /\ upc = "content"
  /\ LET l == readLine(rest)
     IN  IF l.eof \/ l.line = endMark THEN
           /\ upc' = "create" /\ err' = err /\ cur' = cur /\ rest' = Drop(rest, l.n)
         ELSE
           /\ upc' = upc /\ err' = err /\ rest' = Drop(rest, l.n)
           /\ cur' = [cur EXCEPT !.buf = @ \o Buffered(variant, l.line)]
  /\ UNCHANGED <<cmd, variant, umask, fs, done, ioFault>>
  /\ UNCHANGED packVars

\* one turn of the content loop: the next line is the end marker, or is
\* added to the buffer, or the input has ended
UContent ==
  /\ upc = "content"
  /\ LET l == readLine(rest)
     IN  IF l.eof THEN
           /\ upc' = "fatal" /\ err' = "EOF" /\ cur' = cur /\ rest' = rest
         ELSE IF l.line = endMark THEN
           /\ upc' = "create" /\ err' = err /\ cur' = cur /\ rest' = Drop(rest, l.n)
         ELSE
           /\ upc' = upc /\ err' = err /\ rest' = Drop(rest, l.n)
           /\ cur' = [cur EXCEPT !.buf = @ \o Buffered(variant, l.line)]
  /\ UNCHANGED <<cmd, variant, umask, fs, done, ioFault>>
  /\ UNCHANGED packVars

\* os.Create(tmp)
UCreate ==
  /\ upc = "create"
  /\ LET r == Create(fs, cur.tmp, Len(done) + 1, umask)
     IN  IF r.ok THEN fs' = r.fs /\ upc' = "write" /\ err' = err
         ELSE fs' = fs /\ upc' = "fatal" /\ err' = "create"
  /\ UNCHANGED <<cmd, variant, umask, rest, cur, done, ioFault>>
  /\ UNCHANGED packVars

\* the content goes to the temporary file, at most MaxChunk bytes at a time;
\* corrupt base64 is met after the bytes before it were written, and then
\* the temporary file is removed
UWrite ==
  /\ upc = "write"
  /\ LET p == Payload(variant, cur.buf)
         have == Len(fs[cur.tmp].data)
     IN  IF have < Len(p.data) THEN
           /\ fs' = [fs EXCEPT ![cur.tmp].data = @ \o SubSeq(p.data, have + 1,
                        IF have + MaxChunk < Len(p.data) THEN have + MaxChunk ELSE Len(p.data))]
           /\ upc' = upc /\ err' = err
         ELSE IF ~p.ok THEN
           /\ fs' = Remove(fs, cur.tmp) /\ upc' = "fatal" /\ err' = "decode content base64"
         ELSE
           /\ fs' = fs /\ upc' = "close" /\ err' = err
  /\ UNCHANGED <<cmd, variant, umask, rest, cur, done, ioFault>>
  /\ UNCHANGED packVars

\* outf.Close()
UClose ==
  /\ upc = "close"
  /\ upc' = "chmod"
  /\ UNCHANGED <<cmd, variant, umask, rest, fs, cur, done, err, ioFault>>
  /\ UNCHANGED packVars

\* the write or the close fails: the temporary file is removed
UIoFail ==
  /\ upc \in {"write", "close"}
  /\ fs' = Remove(fs, cur.tmp)
  /\ upc' = "fatal"
  /\ err' = "write"
  /\ ioFault' = TRUE
  /\ UNCHANGED <<cmd, variant, umask, rest, cur, done>>
  /\ UNCHANGED packVars

\* os.Chmod(tmp, mode), its error dropped
UChmod ==
  /\ upc = "chmod"
  /\ \E ok \in BOOLEAN :
       /\ fs' = IF ok THEN [fs EXCEPT ![cur.tmp].mode = ChmodBits(cur.modeStr)] ELSE fs
       /\ ioFault' = (ioFault \/ ~ok)
  /\ upc' = "rename"
  /\ UNCHANGED <<cmd, variant, umask, rest, cur, done, err>>
  /\ UNCHANGED packVars

\* os.Rename(tmp, full), and on to the next record
URename ==
  /\ upc = "rename"
  /\ LET r == Rename(fs, cur.tmp, cur.full)
     IN  IF r.ok THEN
           /\ fs' = r.fs /\ upc' = "scan" /\ err' = err
           /\ done' = Append(done, cur)
           /\ cur' = NoRecord
         ELSE
           /\ fs' = fs /\ upc' = "fatal" /\ err' = "rename"
           /\ done' = done
           /\ cur' = cur
  /\ UNCHANGED <<cmd, variant, umask, rest, ioFault>>
  /\ UNCHANGED packVars

\* the process is killed between two steps
UInterrupt ==
  /\ Running
  /\ upc' = "killed"
  /\ UNCHANGED <<cmd, variant, umask, rest, fs, cur, done, err, ioFault>>
  /\ UNCHANGED packVars

Next ==
  \/ PVisit
  \/ PWalkErr
  \/ PSniff
  \/ PEmit
  \/ PCopy
  \/ PDone
  \/ StartUnpack
  \/ UEof
  \/ USkip
  \/ UHeader
  \/ UMkdir
  \/ UContent
  \/ UCreate
  \/ UWrite
  \/ UClose
  \/ UIoFail
  \/ UChmod
  \/ URename
  \/ UInterrupt

Spec == Init /\ [][Next]_vars

\* ------------------------------------------------------------ claims

FileEntries(t) == {i \in 1..Len(t) : t[i].kind = "file"}

\* a tree of text files: regular files and directories only, none excluded,
\* every file classified as text on its first sniff bytes
IsTextTree(t, pats) ==
  \A i \in 1..Len(t) :
    /\ t[i].kind \in {"file", "dir"}
    /\ ~excluded(t[i].rel, pats)
    /\ t[i].kind = "file" => ~isBinaryFile(Take(t[i].data, sniff))

\* the lines of a content: its bytes split at "\n"
HasEndMarkLine(data) == \E i \in 1..Len(Split(data, "\n")) : Split(data, "\n")[i] = endMark

\* C1: in the base64 variant, pack of a tree of text files followed by unpack
\* into an empty destination ends without error and leaves exactly the
\* tree's files, each with the bytes and the permission bits it had.
RoundTripB64 ==
  (cmd = "pack" /\ variant = "b64" /\ IsTextTree(tree, excludes) /\ ~ioFault) =>
    /\ upc # "fatal"
    /\ upc = "done" =>
         /\ Files(fs) = {Join(Dest, tree[i].rel) : i \in FileEntries(tree)}
         /\ \A i \in FileEntries(tree) :
              /\ fs[Join(Dest, tree[i].rel)].data = tree[i].data
              /\ fs[Join(Dest, tree[i].rel)].mode = tree[i].mode % 512

\* a finished round trip of a tree with a file that holds the end marker as
\* a line and a file that is empty
RoundTripB64Witness ==
  /\ cmd = "pack" /\ variant = "b64" /\ IsTextTree(tree, excludes) /\ ~ioFault
  /\ upc = "done"
  /\ \E i, j \in FileEntries(tree) :
       /\ HasEndMarkLine(tree[i].data)
       /\ tree[i].mode = 493
       /\ fs[Join(Dest, tree[i].rel)].data = tree[i].data
       /\ tree[j].data = <<>>
       /\ Join(Dest, tree[j].rel) \in Files(fs)

\* C2: nothing is ever created outside the destination root: every file and
\* directory unpack has made lies at or below --dest.
PathSafety == \A p \in DOMAIN fs : Within(Dest, p)

\* C3: while a record is being processed its final path holds what it held
\* before the record; the temporary file is complete when it is renamed; and
\* once the record is done the final path holds its complete content.
CrashSafeWrite ==
  /\ InFlight => Lookup(fs, cur.full) = cur.prev
  /\ upc = "rename" =>
       /\ Lookup(fs, cur.tmp).kind = "file"
       /\ fs[cur.tmp].data = Payload(variant, cur.buf).data
       /\ Payload(variant, cur.buf).ok
       /\ Lookup(fs, Dir(cur.full)).kind = "dir"
  /\ (~InFlight /\ done # <<>>) =>
       LET last == done[Len(done)]
       IN  /\ Lookup(fs, last.full).kind = "file"
           /\ fs[last.full].data = Payload(variant, last.buf).data
           /\ fs[last.full].by = Len(done)

\* a record of several bytes is interrupted while its temporary file holds a
\* proper prefix of them, at a final path an earlier record has written
CrashSafeWriteWitness ==
  /\ upc = "killed"
  /\ InFlight
  /\ cur.prev.kind = "file"
  /\ Lookup(fs, cur.tmp).kind = "file"
  /\ fs[cur.tmp].data # <<>>
  /\ Len(fs[cur.tmp].data) < Len(Payload(variant, cur.buf).data)

\* C4: no record is written for an entry below a directory the exclusion
\* patterns match: neither the list of packed paths nor the archive holds one.
ExclusionSkipsSubtree ==
  \A i, j \in 1..Len(tree) :
    (/\ tree[i].kind = "dir"
     /\ excluded(tree[i].rel, excludes)
     /\ HasPrefix(tree[j].rel, tree[i].rel \o Slash)) =>
      /\ tree[j].rel \notin Range(packed)
      /\ ~Contains(out, HeaderLine(variant, tree[j].rel, tree[j].mode % 512))

\* pack has finished on a tree with an excluded directory that holds, two
\* levels down, a file no pattern matches, and has written other records
ExclusionSkipsSubtreeWitness ==
  /\ ppc = "done"
  /\ packed # <<>>
  /\ \E i, j \in 1..Len(tree) :
       /\ tree[i].kind = "dir"
       /\ excluded(tree[i].rel, excludes)
       /\ tree[j].kind = "file"
       /\ HasPrefix(tree[j].rel, tree[i].rel \o Slash)
       /\ Len(Split(tree[j].rel, "/")) = Len(Split(tree[i].rel, "/")) + 2
       /\ ~excluded(tree[j].rel, excludes)
       /\ ~isBinaryFile(tree[j].data)

\* C5: no record is written for a file with a NUL byte among its first sniff
\* bytes.
BinaryExclusion ==
  \A i \in FileEntries(tree) :
    "NUL" \in Range(Take(tree[i].data, sniff)) => tree[i].rel \notin Range(packed)

\* the strict header grammar: the start marker, the path tag, a token of one
\* or more bytes none of which is white space, " mode=", 3 or 4 octal
\* digits, " ---", and nothing after it
StrictHeader(v, line) ==
  LET pre == startMark \o PathTag(v)
  IN  \E k \in 1..Len(line), d \in {3, 4} :
        /\ Len(line) = Len(pre) + k + Len(ModeTag) + d + Len(HeaderTail)
        /\ SubSeq(line, 1, Len(pre)) = pre
        /\ \A i \in 1..k : line[Len(pre) + i] \notin SpaceClass
        /\ SubSeq(line, Len(pre) + k + 1, Len(pre) + k + Len(ModeTag)) = ModeTag
        /\ \A i \in 1..d :
             line[Len(pre) + k + Len(ModeTag) + i] \in {"0", "1", "2", "3", "4", "5", "6", "7"}
        /\ SubSeq(line, Len(line) - Len(HeaderTail) + 1, Len(line)) = HeaderTail

\* the scanning loop is about to read a line that starts with the start
\* marker and is no header of the strict grammar
AtBadHeader ==
  /\ upc = "scan"
  /\ ~readLine(rest).eof
  /\ HasPrefix(readLine(rest).line, startMark)
  /\ ~StrictHeader(variant, readLine(rest).line)

\* unpack has stopped on a malformed header: nothing can happen any more, no
\* record is in progress, and every file there is was renamed to its final
\* path by a record completed before
StoppedAtBadHeader ==
  err = "malformed header" =>
    /\ upc = "fatal"
    /\ ~ENABLED Next
    /\ ~InFlight
    /\ \A p \in Files(fs) : \E i \in 1..Len(done) : p = done[i].full /\ fs[p].by = i

\* C6: a line that starts with the start marker and does not match the
\* strict header grammar halts unpack at once: the step that reads it ends
\* in the fatal state with no file touched and no record begun, and from
\* then on nothing happens, so the files are those of the records completed
\* before the line.
MalformedHeaderFatal ==
  /\ []StoppedAtBadHeader
  /\ [][AtBadHeader =>
          /\ upc' \in {"fatal", "killed"}
          /\ upc' = "fatal" => err' = "malformed header"
          /\ fs' = fs
          /\ done' = done
          /\ cur' = cur]_vars

\* unpack has stopped on a malformed header after completing a record, with
\* the header of a further record still unread behind the bad line
MalformedHeaderFatalWitness ==
  /\ err = "malformed header"
  /\ upc = "fatal"
  /\ ~ioFault
  /\ done # <<>>
  /\ Files(fs) # {}
  /\ \E n \in 1..Len(rest) : StrictHeader(variant, readLine(Drop(rest, n)).line)

\* C7, as stated: when the input ends inside a record's content, unpack
\* aborts and neither the record's final file nor its temporary file exists.
MissingEndMarkerNoFile ==
  err = "EOF" =>
    /\ upc = "fatal"
    /\ Lookup(fs, cur.full).kind = "none"
    /\ Lookup(fs, cur.tmp).kind = "none"

\* unpack has stopped at the end of the input inside a record: the record has
\* written nothing, so its final path holds what it held before the record
\* and no file holds bytes of it
StoppedInContent ==
  err = "EOF" =>
    /\ upc = "fatal"
    /\ ~ENABLED Next
    /\ InFlight
    /\ Lookup(fs, cur.full) = cur.prev
    /\ \A p \in Files(fs) : fs[p].by <= Len(done)

\* C7, amended: when the input ends inside a record's content, unpack aborts
\* with an error and the record has written no file: its temporary file was
\* never created and its final path holds what it held before the record.
MissingEndMarkerFatal ==
  /\ []StoppedInContent
  /\ [][(upc = "content" /\ readLine(rest).eof) =>
          /\ upc' \in {"fatal", "killed"}
          /\ upc' = "fatal" => err' = "EOF"
          /\ fs' = fs
          /\ done' = done]_vars

\* the input ended inside the content of a record whose final path an earlier
\* record has written
MissingEndMarkerFatalWitness ==
  /\ err = "EOF"
  /\ upc = "fatal"
  /\ cur.buf # <<>>
  /\ cur.prev.kind = "file"
  /\ Lookup(fs, cur.tmp).kind = "none"

\* C8: in the raw variant the content unpack writes for a record is the
\* content pack read for it, for contents over an alphabet with "\n" and
\* "\r" that have no line equal to the end marker.
RawContentRoundTrip ==
  (/\ cmd = "pack" /\ variant = "raw" /\ ~ioFault
   /\ IsTextTree(tree, excludes)
   /\ \A i \in FileEntries(tree) : ~HasEndMarkLine(tree[i].data)
   /\ upc = "done") =>
    \A i \in FileEntries(tree) :
      tree[i].rel \in Range(packed) =>
        /\ Lookup(fs, Join(Dest, tree[i].rel)).kind = "file"
        /\ fs[Join(Dest, tree[i].rel)].data = tree[i].data

\* C9: for a non-empty sample without a NUL byte that the content-type sniff
\* does not flag, isBinaryFile returns true exactly when no code point is
\* printable or more than 30% of them are not (10n > 3(p + n)).
ClassifierThreshold ==
  (/\ ppc = "emit"
   /\ sniffed # <<>>
   /\ "NUL" \notin Range(sniffed)
   /\ ~MimeIsBinary(DetectContentType(sniffed))) =>
    LET p == Printable(sniffed)
        n == NonPrintable(sniffed)
    IN  bin <=> (p = 0 \/ 10 * n > 3 * (p + n))

\* a sample of 7 printable and 3 non-printable code points, exactly 30%, has
\* been classified as text
ClassifierThresholdWitness ==
  /\ ppc = "emit"
  /\ "NUL" \notin Range(sniffed)
  /\ ~MimeIsBinary(DetectContentType(sniffed))
  /\ Printable(sniffed) = 7
  /\ NonPrintable(sniffed) = 3
  /\ ~bin

\* C10: at every moment of an unpack in which no system call has failed
\* (a) every completed record has its file at its final path, (b) the only
\* file that is not at the final path of a completed record is the
\* temporary file of the record in progress, and (c) no file holds bytes of
\* a record after the one in progress.
InterruptedState ==
  ~ioFault =>
  /\ \A i \in 1..Len(done) : Lookup(fs, done[i].full).kind = "file"
  /\ \A p \in Files(fs) :
       (\A i \in 1..Len(done) : done[i].full # p) => (InFlight /\ p = cur.tmp)
  /\ \A p \in Files(fs) : fs[p].by <= Len(done) + (IF InFlight THEN 1 ELSE 0)

\* the records of the files with the relative paths rels, as pack writes
\* them whole
RECURSIVE WholeRecords(_, _, _)
WholeRecords(v, t, rels) ==
  IF rels = <<>> THEN <<>>
  ELSE LET e == CHOOSE x \in Range(t) : x.rel = Head(rels)
       IN  PackRecord(v, e.rel, e.mode % 512, e.data) \o WholeRecords(v, t, Tail(rels))

\* C11: a failure on one file or directory during pack never aborts pack and
\* never leaves a partial record: pack stops with an error only when a write
\* to the output fails, and what it has written is whole records.
PackErrorsSwallowed ==
  cmd = "pack" =>
    /\ ppc = "fatal" => err = "write"
    /\ ppc \in {"walk", "sniff", "emit", "done", "fatal"} => out = WholeRecords(variant, tree, packed)

\* C12: in the scanning state a line that does not start with the start
\* marker is consumed and nothing else changes, so unpack goes on exactly as
\* if the line were not in the input; in a record body every line that is
\* not the end marker, a line that starts with the start marker included, is
\* added to the record's content.
ScanningTolerance ==
  [][LET l == readLine(rest)
     IN  /\ (upc = "scan" /\ ~l.eof /\ ~HasPrefix(l.line, startMark)) =>
              \/ upc' = "killed" /\ rest' = rest /\ fs' = fs /\ done' = done
              \/ /\ rest' = Drop(rest, l.n)
                 /\ UNCHANGED <<fs, upc, cur, done, err, ioFault>>
         /\ (upc = "content" /\ ~l.eof /\ l.line # endMark) =>
              \/ upc' = "killed" /\ rest' = rest /\ fs' = fs /\ done' = done
              \/ /\ rest' = Drop(rest, l.n)
                 /\ cur' = [cur EXCEPT !.buf = cur.buf \o Buffered(variant, l.line)]
                 /\ UNCHANGED <<fs, upc, done, err, ioFault>>]_vars

\* unpack of pack's output has finished without error after it took a line
\* that starts with the start marker as content of the first record and
\* passed over the lines between the end of that record and the next header
ScanningToleranceWitness ==
  /\ cmd = "pack"
  /\ variant = "raw"
  /\ upc = "done"
  /\ err = ""
  /\ ~ioFault
  /\ Len(done) = 2
  /\ done[1].buf = startMark \o <<" ", "x", "\n">>
  /\ fs[done[1].full].data = startMark \o <<" ", "x">>
  /\ fs[done[2].full].by = 2

\* C13: a record is completed whether or not its permission bits could be
\* applied: the file at its final path has the whole content, and its
\* permission bits are those of the header or, when they could not be
\* applied, 0644.
BestEffortMode ==
  \A i \in 1..Len(done) :
    LET e == Lookup(fs, done[i].full)
    IN  (e.kind = "file" /\ e.by = i) =>
          /\ e.data = Payload(variant, done[i].buf).data
          /\ e.mode \in {ChmodBits(done[i].modeStr), DefaultMode}

\* the last of the segments of a relative path
LastSegment(rel) == Split(rel, "/")[Len(Split(rel, "/"))]

\* a pattern with "/" matches the whole relative path; a pattern without
\* matches the last segment, as a glob or, when it has no glob character,
\* as a name
PatternHits(pat, rel) ==
  IF "/" \in Range(pat) THEN Match(pat, rel)
  ELSE \/ Match(pat, LastSegment(rel))
       \/ Range(pat) \cap GlobMeta = {} /\ LastSegment(rel) = pat

\* C14: excluded is true of an entry exactly when some pattern with "/"
\* matches its whole relative path or some pattern without "/" matches its
\* last segment, and no record is written for such an entry (looked at
\* while pack runs and when it has finished).
ExclusionEvaluator ==
  upc = "idle" =>
    /\ \A i \in 1..Len(tree) :
         excluded(tree[i].rel, excludes) <=>
           \E k \in 1..Len(excludes) : PatternHits(excludes[k], tree[i].rel)
    /\ \A i \in 1..Len(packed) :
         ~\E k \in 1..Len(excludes) : PatternHits(excludes[k], packed[i])

\* pack has finished with a name pattern that excluded a directory at the
\* second level and a whole-path pattern that excluded s/gen and left gen,
\* whose name is the same, in the archive
ExclusionEvaluatorWitness ==
  /\ ppc = "done"
  /\ excludes = parseExcludes(DepthFlag)
  /\ <<"g", "e", "n", "/", "g">> \in Range(packed)
  /\ <<"s", "/", "g", "e", "n", "/", "h">> \notin Range(packed)
  /\ \E i \in 1..Len(tree) :
       /\ Len(Split(tree[i].rel, "/")) = 2
       /\ LastSegment(tree[i].rel) = excludes[1]
       /\ excluded(tree[i].rel, excludes)
  /\ \A i \in 1..Len(tree) :
       HasPrefix(tree[i].rel, <<"s", "/", "n">>) => tree[i].rel \notin Range(packed)

\* the entries of a tree that pack opens: not excluded, not below an
\* excluded directory, and of a kind the callback does not pass over
Walked(v, t, pats) ==
  {i \in 1..Len(t) :
     /\ ~excluded(t[i].rel, pats)
     /\ ~SkippedKind(v, t[i])
     /\ \A j \in 1..Len(t) :
          (t[j].kind = "dir" /\ HasPrefix(t[i].rel, t[j].rel \o Slash)) => ~excluded(t[j].rel, pats)}

\* the archive of a tree as a function of the tree and the patterns alone:
\* the records, in walk order, of the walked entries whose first sniff bytes
\* are classified as text
RECURSIVE ArchiveFrom(_, _, _, _)
ArchiveFrom(v, t, pats, i) ==
  IF i > Len(t) THEN <<>>
  ELSE (IF i \in Walked(v, t, pats) /\ ~isBinaryFile(Take(t[i].data, sniff))
          THEN PackRecord(v, t[i].rel, t[i].mode % 512, t[i].data)
          ELSE <<>>)
         \o ArchiveFrom(v, t, pats, i + 1)

\* C15: the archive a run of pack writes, when no system call fails, is
\* determined by the tree and the exclusion patterns, so two runs over the
\* same tree with the same patterns write the same bytes.
PackDeterminism ==
  (ppc = "done" /\ upc = "idle" /\ ~ioFault) => OutFile = ArchiveFrom(variant, tree, excludes, 1)

\* C16: when unpack has finished and no system call has failed, the file at
\* a path that two or more records name has the content and the permission
\* bits of the last of them.
LastWriteWins ==
  (upc = "done" /\ ~ioFault) =>
    \A i \in 1..Len(done) :
      (/\ \E j \in 1..(i - 1) : done[j].rel = done[i].rel
       /\ \A j \in (i + 1)..Len(done) : done[j].rel # done[i].rel) =>
        LET e == Lookup(fs, done[i].full)
        IN  /\ e.kind = "file"
            /\ e.data = Payload(variant, done[i].buf).data
            /\ e.mode = ChmodBits(done[i].modeStr)

\* C17: the header line pack writes for an entry matches the header
\* expression of unpack, which reads from it the entry's relative path and
\* its permission bits.
HeaderAgreement ==
  \A i \in 1..Len(tree) :
    tree[i].rel \in Range(packed) =>
      LET m == MatchHeader(variant, HeaderLine(variant, tree[i].rel, tree[i].mode % 512))
      IN  /\ m.ok
          /\ HeaderPath(variant, m.path) = [ok |-> TRUE, data |-> tree[i].rel]
          /\ m.mode = FormatMode(tree[i].mode % 512)

\* C18: while no system call has failed, the file a completed record left at
\* its final path stays there with the record's content as long as no later
\* record names the same path.
NoClobber ==
  ~ioFault =>
  \A j \in 1..Len(done) :
    (/\ \A k \in (j + 1)..Len(done) : done[k].full # done[j].full
     /\ InFlight => cur.full # done[j].full) =>
      LET e == Lookup(fs, done[j].full)
      IN  /\ e.kind = "file"
          /\ e.by = j
          /\ e.data = Payload(variant, done[j].buf).data

\* the bytes of the output file that the copy of it has yet to read
Unread == Len(OutFile) - rpos

====
